---- MODULE Spec2Model ----
(***************************************************************************)
(* A model of the intcode processor: the sparse Memory (memory.rs), the    *)
(* fetch/decode/dispatch loop (processor/mod.rs) and the opcode handlers   *)
(* (processor/handlers.rs).                                                *)
(***************************************************************************)
EXTENDS Integers, Sequences, FiniteSets, TLC

VARIABLES
    pc,               \* Processor.pc : Address
    relative_base,    \* Processor.relative_base : Value
    memory,           \* Processor.memory : Memory (HashMap<Address, Value>)
    input_buffer,     \* Processor.input_buffer : VecDeque<Value>
    overflow_checks,  \* build profile: TRUE = debug (arithmetic overflow panics), FALSE = release (wraps)
    call,             \* the driving loop the caller is inside: "idle" | "execute" | "execute_until_output"
    panicked,         \* the thread has panicked (arithmetic overflow under overflow_checks)
    ret,              \* what the last completed API call returned (kind "Panic": it unwound)
    last,             \* history: the last execute_once, with the state it started from
    errored,          \* history: some execute_once has returned Error
    terminated,       \* history: some execute_once has returned Terminate
    pushed,           \* history: every value ever given to push_input, in order
    taken,            \* history: the value each successful input instruction stored, in order
    outputs,          \* history: what each completed execute_until_output returned, in order
    ncalls,           \* history: the number of execution API calls started
    mem0              \* history: the initial memory image

vars == <<pc, relative_base, memory, input_buffer, overflow_checks, call, panicked,
          ret, last, errored, terminated, pushed, taken, outputs, ncalls, mem0>>

-----------------------------------------------------------------------------
(* Value(pub i32): 32-bit two's complement arithmetic                        *)

MaxI32 == 2147483647
MinI32 == -MaxI32 - 1

Abs(x) == IF x < 0 THEN -x ELSE x

\* Rust's `/` and `%` on i32 truncate toward zero (the divisor is positive here).
TruncDiv(a, b) == IF a >= 0 \/ a % b = 0 THEN a \div b ELSE (a \div b) + 1
TruncRem(a, b) == IF a >= 0 \/ a % b = 0 THEN a % b ELSE (a % b) - b

\* a + b is representable as an i32
AddFits(a, b) ==
    /\ ~(a > 0 /\ b > 0 /\ a > MaxI32 - b)
    /\ ~(a < 0 /\ b < 0 /\ a < MinI32 - b)

\* a + b modulo 2^32, as an i32
WrapAdd(a, b) ==
    IF a > 0 /\ b > 0 /\ a > MaxI32 - b THEN (a - MaxI32 - 1) + (b - MaxI32 - 1)
    ELSE IF a < 0 /\ b < 0 /\ a < MinI32 - b THEN (a + MaxI32 + 1) + (b + MaxI32 + 1)
    ELSE a + b

\* a * b is representable as an i32
MulFits(a, b) ==
    IF a = 0 \/ b = 0 THEN TRUE
    ELSE IF a = MinI32 THEN b = 1
    ELSE IF b = MinI32 THEN a = 1
    ELSE LET x == Abs(a)
             y == Abs(b)
             q == MaxI32 \div y
         IN  IF (a < 0) = (b < 0)
             THEN x <= q
             ELSE x <= q \/ (x - 1 <= q /\ (x - 1) * y = MaxI32 - (y - 1))

\* byte i (0 = least significant) of the two's complement representation of x
Limb(x, i) ==
    LET sh == IF i = 0 THEN 1 ELSE IF i = 1 THEN 256 ELSE IF i = 2 THEN 65536 ELSE 16777216
    IN  (x \div sh) % 256

\* a * b modulo 2^32, as an i32 (schoolbook product of the bytes, low 4 bytes kept)
WrapMul(a, b) ==
    LET c0 == Limb(a, 0) * Limb(b, 0)
        c1 == Limb(a, 0) * Limb(b, 1) + Limb(a, 1) * Limb(b, 0)
        c2 == Limb(a, 0) * Limb(b, 2) + Limb(a, 1) * Limb(b, 1) + Limb(a, 2) * Limb(b, 0)
        c3 == Limb(a, 0) * Limb(b, 3) + Limb(a, 1) * Limb(b, 2)
              + Limb(a, 2) * Limb(b, 1) + Limb(a, 3) * Limb(b, 0)
        r0 == c0 % 256
        k1 == (c0 \div 256) + c1
        r1 == k1 % 256
        k2 == (k1 \div 256) + c2
        r2 == k2 % 256
        k3 == (k2 \div 256) + c3
        r3 == k3 % 256
        top == IF r3 >= 128 THEN r3 - 256 ELSE r3
    IN  top * 16777216 + r2 * 65536 + r1 * 256 + r0

-----------------------------------------------------------------------------
(* Errors and results                                                        *)

Err(kind, arg) == [kind |-> kind, arg |-> arg]
NoErr == Err("none", 0)

EmptyRead(addr) == Err("EmptyRead", addr)
IllegalPositionalArgument(v) == Err("IllegalPositionalArgument", v)
IllegalMode == Err("IllegalMode", 0)
InputReadError == Err("InputReadError", 0)
InvalidOpcode == Err("InvalidOpcode", 0)
FinishedWithoutTerminating == Err("FinishedWithoutTerminating", 0)

\* Result<Value, Error>
OkVal(v) == [ok |-> TRUE, val |-> v, err |-> NoErr]
ErrVal(e) == [ok |-> FALSE, val |-> 0, err |-> e]

\* Option<Value>
Some(v) == [some |-> TRUE, val |-> v]
None == [some |-> FALSE, val |-> 0]

-----------------------------------------------------------------------------
(* memory.rs                                                                 *)

\* the conversion without the range check: every value is taken as an address
AddressTryFrom_Unchecked(value) == OkVal(value)

\* impl TryFrom<Value> for Address: u32::try_from(value.0)
AddressTryFrom(value) ==
    IF value >= 0 THEN OkVal(value) ELSE ErrVal(IllegalPositionalArgument(value))

\* Memory::read
MemoryRead(mem, addr) ==
    IF addr \in DOMAIN mem THEN OkVal(mem[addr]) ELSE ErrVal(EmptyRead(addr))

\* a write that keeps the map sparse by dropping the entry when the value is 0
MemoryWrite_DropsZero(mem, addr, val) ==
    IF val = 0 THEN [a \in (DOMAIN mem) \ {addr} |-> mem[a]]
    ELSE [a \in (DOMAIN mem) \cup {addr} |-> IF a = addr THEN val ELSE mem[a]]

\* Memory::write
MemoryWrite(mem, addr, val) ==
    [a \in (DOMAIN mem) \cup {addr} |-> IF a = addr THEN val ELSE mem[a]]

-----------------------------------------------------------------------------
(* processor/mod.rs: addressing modes                                        *)

\* Mode::try_from without the arm for 2: only Positional and Immediate exist
ModeTryFrom_NoRelative(value) ==
    IF value = 0 THEN [ok |-> TRUE, mode |-> "Positional"]
    ELSE IF value = 1 THEN [ok |-> TRUE, mode |-> "Immediate"]
    ELSE [ok |-> FALSE, mode |-> "InvalidMode"]

\* impl TryFrom<Modes> for Mode
ModeTryFrom(value) ==
    IF value = 0 THEN [ok |-> TRUE, mode |-> "Positional"]
    ELSE IF value = 1 THEN [ok |-> TRUE, mode |-> "Immediate"]
    ELSE IF value = 2 THEN [ok |-> TRUE, mode |-> "Relative"]
    ELSE [ok |-> FALSE, mode |-> "InvalidMode"]

Pow10(i) == IF i = 0 THEN 1 ELSE IF i = 1 THEN 10 ELSE IF i = 2 THEN 100 ELSE 1000

\* split_modes without the two `*= 10`: every operand gets the first operand's digit
ModeDigit_FirstOnly(num, index) == TruncDiv(TruncRem(num, Pow10(1)), Pow10(0))

\* the digit split_modes hands to Mode::try_from in iteration `index`
ModeDigit(num, index) == TruncDiv(TruncRem(num, Pow10(index + 1)), Pow10(index))

\* split_modes::<N>(num): Ok(modes) with modes[i + 1] the mode of operand i
split_modes(N, num) ==
    IF \A index \in 0 .. N - 1 : ModeTryFrom(ModeDigit(num, index)).ok
    THEN OkVal([i \in 1 .. N |-> ModeTryFrom(ModeDigit(num, i - 1)).mode])
    ELSE ErrVal(IllegalMode)

-----------------------------------------------------------------------------
(* processor/handlers.rs                                                     *)

\* the `?` operator on a Result<_, Error>, inside a function returning Result<Value, Error>
TryVal(r, Then(_)) == IF ~r.ok THEN ErrVal(r.err) ELSE Then(r.val)

\* the Relative operand: the parameter cell holds an offset from relative_base
ReadRelative(self, addr) ==
    TryVal(MemoryRead(self.memory, addr), LAMBDA raw :
    TryVal(AddressTryFrom(WrapAdd(self.relative_base, raw)), LAMBDA addr2 :
    MemoryRead(self.memory, addr2)))

\* Processor::read_argument
read_argument(self, mode, index) ==
    LET addr == self.pc + 1 + index
    IN  IF mode = "Positional"
        THEN TryVal(MemoryRead(self.memory, addr), LAMBDA addr2 :
             TryVal(AddressTryFrom(addr2), LAMBDA a :
             MemoryRead(self.memory, a)))
        ELSE IF mode = "Immediate"
        THEN MemoryRead(self.memory, addr)
        ELSE ReadRelative(self, addr)

\* OpcodeResult = Result<Option<Value>, Error>, with the processor as the handler left it
OpOk(self, out) == [res |-> "Ok", out |-> out, err |-> NoErr, self |-> self]
OpErr(self, e) == [res |-> "Err", out |-> None, err |-> e, self |-> self]
OpPanic(self) == [res |-> "Panic", out |-> None, err |-> NoErr, self |-> self]

\* the `?` operator on a Result<_, Error>, inside a handler returning OpcodeResult: every
\* handler reads and converts all its operands, in source order, before it changes anything
Try(self, r, Then(_)) == IF ~r.ok THEN OpErr(self, r.err) ELSE Then(r.val)

\* add with its first operand read for both (the sum is num1 + num1)
add_first_operand_twice(self, modes, oc) ==
    Try(self, split_modes(2, modes), LAMBDA m :
    Try(self, read_argument(self, m[1], 0), LAMBDA num1 :
    Try(self, read_argument(self, m[2], 1), LAMBDA num2 :
    Try(self, read_argument(self, "Immediate", 2), LAMBDA raw :
    Try(self, AddressTryFrom(raw), LAMBDA out_addr :
        IF oc /\ ~AddFits(num1, num1) THEN OpPanic(self)
        ELSE OpOk([self EXCEPT !.memory = MemoryWrite(self.memory, out_addr, WrapAdd(num1, num1)),
                               !.pc = self.pc + 4], None))))))

\* Processor::add
add(self, modes, oc) ==
    Try(self, split_modes(2, modes), LAMBDA m :
    Try(self, read_argument(self, m[1], 0), LAMBDA num1 :
    Try(self, read_argument(self, m[2], 1), LAMBDA num2 :
    Try(self, read_argument(self, "Immediate", 2), LAMBDA raw :
    Try(self, AddressTryFrom(raw), LAMBDA out_addr :
        IF oc /\ ~AddFits(num1, num2) THEN OpPanic(self)
        ELSE OpOk([self EXCEPT !.memory = MemoryWrite(self.memory, out_addr, WrapAdd(num1, num2)),
                               !.pc = self.pc + 4], None))))))

\* Processor::multiply
multiply(self, modes, oc) ==
    Try(self, split_modes(2, modes), LAMBDA m :
    Try(self, read_argument(self, m[1], 0), LAMBDA num1 :
    Try(self, read_argument(self, m[2], 1), LAMBDA num2 :
    Try(self, read_argument(self, "Immediate", 2), LAMBDA raw :
    Try(self, AddressTryFrom(raw), LAMBDA out_addr :
        IF oc /\ ~MulFits(num1, num2) THEN OpPanic(self)
        ELSE OpOk([self EXCEPT !.memory = MemoryWrite(self.memory, out_addr, WrapMul(num1, num2)),
                               !.pc = self.pc + 4], None))))))

\* input taking the newest value of the queue (pop_back) instead of the oldest
input_pop_back(self) ==
    Try(self, read_argument(self, "Immediate", 0), LAMBDA raw :
    Try(self, AddressTryFrom(raw), LAMBDA out_addr :
        IF self.input_buffer = <<>> THEN OpErr(self, InputReadError)
        ELSE OpOk([self EXCEPT
                      !.memory = MemoryWrite(self.memory, out_addr,
                                             self.input_buffer[Len(self.input_buffer)]),
                      !.input_buffer = SubSeq(self.input_buffer, 1, Len(self.input_buffer) - 1),
                      !.pc = self.pc + 2], None)))

\* input taking the value from the queue before it resolves its output address
input_pops_first(self) ==
    IF self.input_buffer = <<>> THEN OpErr(self, InputReadError)
    ELSE Try([self EXCEPT !.input_buffer = Tail(self.input_buffer)],
             read_argument(self, "Immediate", 0), LAMBDA raw :
         Try([self EXCEPT !.input_buffer = Tail(self.input_buffer)],
             AddressTryFrom(raw), LAMBDA out_addr :
             OpOk([self EXCEPT
                      !.memory = MemoryWrite(self.memory, out_addr, Head(self.input_buffer)),
                      !.input_buffer = Tail(self.input_buffer),
                      !.pc = self.pc + 2], None)))

\* input moving the program counter before it takes the value from the queue
input_advances_first(self) ==
    Try(self, read_argument(self, "Immediate", 0), LAMBDA raw :
    Try(self, AddressTryFrom(raw), LAMBDA out_addr :
        IF self.input_buffer = <<>>
        THEN OpErr([self EXCEPT !.pc = self.pc + 2], InputReadError)
        ELSE OpOk([self EXCEPT
                      !.memory = MemoryWrite(self.memory, out_addr, Head(self.input_buffer)),
                      !.input_buffer = Tail(self.input_buffer),
                      !.pc = self.pc + 2], None)))

\* Processor::input
input(self) ==
    Try(self, read_argument(self, "Immediate", 0), LAMBDA raw :
    Try(self, AddressTryFrom(raw), LAMBDA out_addr :
        IF self.input_buffer = <<>> THEN OpErr(self, InputReadError)
        ELSE OpOk([self EXCEPT
                      !.memory = MemoryWrite(self.memory, out_addr, Head(self.input_buffer)),
                      !.input_buffer = Tail(self.input_buffer),
                      !.pc = self.pc + 2], None)))

\* Processor::output
output(self, modes) ==
    Try(self, split_modes(1, modes), LAMBDA m :
    Try(self, read_argument(self, m[1], 0), LAMBDA val :
        OpOk([self EXCEPT !.pc = self.pc + 2], Some(val))))

\* jump_if_true with the condition inverted
jump_if_true_inverted(self, modes) ==
    Try(self, split_modes(2, modes), LAMBDA m :
    Try(self, read_argument(self, m[1], 0), LAMBDA condition :
    Try(self, read_argument(self, m[2], 1), LAMBDA raw :
    Try(self, AddressTryFrom(raw), LAMBDA jump_to :
        OpOk([self EXCEPT !.pc = IF condition = 0 THEN jump_to ELSE self.pc + 3], None)))))

\* Processor::jump_if_true
jump_if_true(self, modes) ==
    Try(self, split_modes(2, modes), LAMBDA m :
    Try(self, read_argument(self, m[1], 0), LAMBDA condition :
    Try(self, read_argument(self, m[2], 1), LAMBDA raw :
    Try(self, AddressTryFrom(raw), LAMBDA jump_to :
        OpOk([self EXCEPT !.pc = IF condition # 0 THEN jump_to ELSE self.pc + 3], None)))))

\* Processor::jump_if_false
jump_if_false(self, modes) ==
    Try(self, split_modes(2, modes), LAMBDA m :
    Try(self, read_argument(self, m[1], 0), LAMBDA condition :
    Try(self, read_argument(self, m[2], 1), LAMBDA raw :
    Try(self, AddressTryFrom(raw), LAMBDA jump_to :
        OpOk([self EXCEPT !.pc = IF condition = 0 THEN jump_to ELSE self.pc + 3], None)))))

\* less_than comparing with <= instead of <
less_than_or_equal(self, modes) ==
    Try(self, split_modes(3, modes), LAMBDA m :
    Try(self, read_argument(self, m[1], 0), LAMBDA cmp1 :
    Try(self, read_argument(self, m[2], 1), LAMBDA cmp2 :
    Try(self, read_argument(self, "Immediate", 2), LAMBDA raw :
    Try(self, AddressTryFrom(raw), LAMBDA out_addr :
        OpOk([self EXCEPT
                 !.memory = MemoryWrite(self.memory, out_addr, IF cmp1 <= cmp2 THEN 1 ELSE 0),
                 !.pc = self.pc + 4], None))))))

\* Processor::less_than
less_than(self, modes) ==
    Try(self, split_modes(3, modes), LAMBDA m :
    Try(self, read_argument(self, m[1], 0), LAMBDA cmp1 :
    Try(self, read_argument(self, m[2], 1), LAMBDA cmp2 :
    Try(self, read_argument(self, "Immediate", 2), LAMBDA raw :
    Try(self, AddressTryFrom(raw), LAMBDA out_addr :
        OpOk([self EXCEPT
                 !.memory = MemoryWrite(self.memory, out_addr, IF cmp1 < cmp2 THEN 1 ELSE 0),
                 !.pc = self.pc + 4], None))))))

\* Processor::equals
equals(self, modes) ==
    Try(self, split_modes(3, modes), LAMBDA m :
    Try(self, read_argument(self, m[1], 0), LAMBDA cmp1 :
    Try(self, read_argument(self, m[2], 1), LAMBDA cmp2 :
    Try(self, read_argument(self, "Immediate", 2), LAMBDA raw :
    Try(self, AddressTryFrom(raw), LAMBDA out_addr :
        OpOk([self EXCEPT
                 !.memory = MemoryWrite(self.memory, out_addr, IF cmp1 = cmp2 THEN 1 ELSE 0),
                 !.pc = self.pc + 4], None))))))

\* Processor::adjust_relative_base (called by execute_once for opcode 9)
adjust_relative_base(self, modes, oc) ==
    Try(self, split_modes(1, modes), LAMBDA m :
    Try(self, read_argument(self, m[1], 0), LAMBDA val :
        IF oc /\ ~AddFits(self.relative_base, val) THEN OpPanic(self)
        ELSE OpOk([self EXCEPT !.relative_base = WrapAdd(self.relative_base, val),
                               !.pc = self.pc + 2], None)))

-----------------------------------------------------------------------------
(* processor/mod.rs: the instruction cycle                                   *)

\* ProcessorState, with the processor as the step left it
StContinue(r) == [state |-> "Continue", out |-> r.out, err |-> NoErr, self |-> r.self]
StTerminate(self) == [state |-> "Terminate", out |-> None, err |-> NoErr, self |-> self]
StError(self, e) == [state |-> "Error", out |-> None, err |-> e, self |-> self]
StPanic(self) == [state |-> "Panic", out |-> None, err |-> NoErr, self |-> self]

\* Memory::read as execute_once uses it: it yields a Value, with no failure to handle;
\* a never-written cell reads as 0 (the missing_terminator test runs into one)
MemoryReadValue(mem, addr) == IF addr \in DOMAIN mem THEN mem[addr] ELSE 0

\* the instruction fetch of execute_once
Fetch(self) == MemoryReadValue(self.memory, self.pc)

\* the opcode taken as the last decimal digit only
OpcodeOf_OneDigit(cell) == TruncRem(cell, 10)

\* the opcode and the mode digits of an instruction cell
OpcodeOf(cell) == TruncRem(cell, 100)
ModesOf(cell) == TruncDiv(cell, 100)

\* the second match of execute_once: a handler's OpcodeResult as a ProcessorState; the
\* handler worked on &mut self, so the processor is as the handler left it in every case
ResultState(self, result) ==
    IF result.res = "Ok" THEN StContinue(result)
    ELSE IF result.res = "Err" THEN StError(result.self, result.err)
    ELSE StPanic(result.self)

\* the dispatch with a halt that moves the program counter past the halt cell
Dispatch_HaltAdvances(self, opcode, modes, oc) ==
    CASE opcode = 1 -> ResultState(self, add(self, modes, oc))
      [] opcode = 2 -> ResultState(self, multiply(self, modes, oc))
      [] opcode = 3 -> ResultState(self, input(self))
      [] opcode = 4 -> ResultState(self, output(self, modes))
      [] opcode = 5 -> ResultState(self, jump_if_true(self, modes))
      [] opcode = 6 -> ResultState(self, jump_if_false(self, modes))
      [] opcode = 7 -> ResultState(self, less_than(self, modes))
      [] opcode = 8 -> ResultState(self, equals(self, modes))
      [] opcode = 9 -> ResultState(self, adjust_relative_base(self, modes, oc))
      [] opcode = 0 -> StError(self, FinishedWithoutTerminating)
      [] opcode = 99 -> StTerminate([self EXCEPT !.pc = self.pc + 1])
      [] OTHER -> StError(self, InvalidOpcode)

\* the dispatch without the arm for opcode 0: a zero cell is an invalid opcode
Dispatch_NoZeroArm(self, opcode, modes, oc) ==
    CASE opcode = 1 -> ResultState(self, add(self, modes, oc))
      [] opcode = 2 -> ResultState(self, multiply(self, modes, oc))
      [] opcode = 3 -> ResultState(self, input(self))
      [] opcode = 4 -> ResultState(self, output(self, modes))
      [] opcode = 5 -> ResultState(self, jump_if_true(self, modes))
      [] opcode = 6 -> ResultState(self, jump_if_false(self, modes))
      [] opcode = 7 -> ResultState(self, less_than(self, modes))
      [] opcode = 8 -> ResultState(self, equals(self, modes))
      [] opcode = 9 -> ResultState(self, adjust_relative_base(self, modes, oc))
      [] opcode = 99 -> StTerminate(self)
      [] OTHER -> StError(self, InvalidOpcode)

\* the first match of execute_once: the dispatch on the opcode (the input handler of
\* handlers.rs takes no modes: whatever execute_once passes it is not looked at)
Dispatch(self, opcode, modes, oc) ==
    CASE opcode = 1 -> ResultState(self, add(self, modes, oc))
      [] opcode = 2 -> ResultState(self, multiply(self, modes, oc))
      [] opcode = 3 -> ResultState(self, input(self))
      [] opcode = 4 -> ResultState(self, output(self, modes))
      [] opcode = 5 -> ResultState(self, jump_if_true(self, modes))
      [] opcode = 6 -> ResultState(self, jump_if_false(self, modes))
      [] opcode = 7 -> ResultState(self, less_than(self, modes))
      [] opcode = 8 -> ResultState(self, equals(self, modes))
      [] opcode = 9 -> ResultState(self, adjust_relative_base(self, modes, oc))
      [] opcode = 0 -> StError(self, FinishedWithoutTerminating)
      [] opcode = 99 -> StTerminate(self)
      [] OTHER -> StError(self, InvalidOpcode)

\* Processor::execute_once
execute_once(self, oc) ==
    LET modes_and_opcode == Fetch(self)
    IN  Dispatch(self, OpcodeOf(modes_and_opcode), ModesOf(modes_and_opcode), oc)

\* what Processor::execute does with one ProcessorState of its loop (a panic unwinds it)
ExecuteLoop(st) ==
    IF st.state = "Panic" THEN [break |-> TRUE, kind |-> "Panic", out |-> None, err |-> NoErr]
    ELSE IF st.state = "Continue" THEN [break |-> FALSE, kind |-> "none", out |-> None, err |-> NoErr]
    ELSE IF st.state = "Terminate" THEN [break |-> TRUE, kind |-> "Ok", out |-> None, err |-> NoErr]
    ELSE [break |-> TRUE, kind |-> "Err", out |-> None, err |-> st.err]

\* execute_until_output that does not stop at an output
ExecuteUntilOutputLoop_IgnoresOutput(st) ==
    IF st.state = "Panic" THEN [break |-> TRUE, kind |-> "Panic", out |-> None, err |-> NoErr]
    ELSE IF st.state = "Continue"
    THEN [break |-> FALSE, kind |-> "none", out |-> None, err |-> NoErr]
    ELSE IF st.state = "Terminate"
    THEN [break |-> TRUE, kind |-> "None", out |-> None, err |-> NoErr]
    ELSE [break |-> TRUE, kind |-> "SomeErr", out |-> None, err |-> st.err]

\* what Processor::execute_until_output does with one ProcessorState of its loop (a panic
\* unwinds it)
ExecuteUntilOutputLoop(st) ==
    IF st.state = "Panic" THEN [break |-> TRUE, kind |-> "Panic", out |-> None, err |-> NoErr]
    ELSE IF st.state = "Continue"
    THEN IF st.out.some
         THEN [break |-> TRUE, kind |-> "SomeOk", out |-> st.out, err |-> NoErr]
         ELSE [break |-> FALSE, kind |-> "none", out |-> None, err |-> NoErr]
    ELSE IF st.state = "Terminate"
    THEN [break |-> TRUE, kind |-> "None", out |-> None, err |-> NoErr]
    ELSE [break |-> TRUE, kind |-> "SomeErr", out |-> None, err |-> st.err]

-----------------------------------------------------------------------------
(* The processor as a state machine                                          *)

Self == [pc |-> pc, relative_base |-> relative_base, memory |-> memory,
         input_buffer |-> input_buffer]

NoRet == [fn |-> "none", kind |-> "none", out |-> None, err |-> NoErr]

\* the step at self is the instruction `opcode`
Fetches(self, opcode) == OpcodeOf(Fetch(self)) = opcode

\* one execute_once on the processor, whichever API call runs it: the processor's
\* fields and the history of the step
Step(st) ==
    /\ pc' = st.self.pc
    /\ relative_base' = st.self.relative_base
    /\ memory' = st.self.memory
    /\ input_buffer' = st.self.input_buffer
    /\ panicked' = (st.state = "Panic")
    /\ last' = [state |-> st.state, out |-> st.out, err |-> st.err,
                cell |-> Fetch(Self), before |-> Self, after |-> st.self]
    /\ errored' = (errored \/ st.state = "Error")
    /\ terminated' = (terminated \/ st.state = "Terminate")
    /\ taken' = IF st.state = "Continue" /\ Fetches(Self, 3)
                THEN Append(taken, st.self.memory[memory[pc + 1]])
                ELSE taken
    /\ UNCHANGED <<overflow_checks, pushed, mem0>>

\* Processor::execute_once, called by the caller
ExecuteOnce ==
    /\ call = "idle" /\ ~panicked
    /\ \E st \in {execute_once(Self, overflow_checks)} :
           /\ Step(st)
           /\ ret' = [fn |-> "execute_once", kind |-> st.state, out |-> st.out, err |-> st.err]
    /\ ncalls' = ncalls + 1
    /\ UNCHANGED <<call, outputs>>

\* Processor::execute: one iteration of its loop (the first one starts the call)
Execute ==
    /\ call \in {"idle", "execute"} /\ ~panicked
    /\ \E st \in {execute_once(Self, overflow_checks)} : \E lp \in {ExecuteLoop(st)} :
           /\ Step(st)
           /\ call' = IF lp.break THEN "idle" ELSE "execute"
           /\ ret' = IF lp.break
                     THEN [fn |-> "execute", kind |-> lp.kind, out |-> lp.out, err |-> lp.err]
                     ELSE ret
    /\ ncalls' = IF call = "idle" THEN ncalls + 1 ELSE ncalls
    /\ UNCHANGED outputs

\* Processor::execute_until_output: one iteration of its loop (the first one starts the call)
ExecuteUntilOutput ==
    /\ call \in {"idle", "execute_until_output"} /\ ~panicked
    /\ \E st \in {execute_once(Self, overflow_checks)} : \E lp \in {ExecuteUntilOutputLoop(st)} :
       LET r == [fn |-> "execute_until_output", kind |-> lp.kind, out |-> lp.out, err |-> lp.err]
       IN  /\ Step(st)
           /\ call' = IF lp.break THEN "idle" ELSE "execute_until_output"
           /\ ret' = IF lp.break THEN r ELSE ret
           /\ outputs' = IF lp.break THEN Append(outputs, r) ELSE outputs
    /\ ncalls' = IF call = "idle" THEN ncalls + 1 ELSE ncalls

\* Processor::push_input
PushInput(value) ==
    /\ call = "idle" /\ ~panicked
    /\ input_buffer' = Append(input_buffer, value)
    /\ pushed' = Append(pushed, value)
    /\ UNCHANGED <<pc, relative_base, memory, overflow_checks, call, panicked, ret, last,
                   errored, terminated, taken, outputs, ncalls, mem0>>

-----------------------------------------------------------------------------
(* Initial memory images                                                     *)

\* the programs of the tests in processor/mod.rs
TestAdd == (0 :> 1) @@ (1 :> 10) @@ (2 :> 20) @@ (3 :> 100) @@ (4 :> 99) @@ (10 :> 41) @@ (20 :> 9)
TestMultiply ==
    (0 :> 2) @@ (1 :> 10) @@ (2 :> 20) @@ (3 :> 100) @@ (4 :> 99) @@ (10 :> 17) @@ (20 :> 50)
TestInvalidOpcode == (0 :> 45)
TestMissingTerminator == (0 :> 1) @@ (1 :> 2) @@ (2 :> 3) @@ (3 :> 100)
TestImmediateMode ==
    (0 :> 1001) @@ (1 :> 300) @@ (2 :> 9) @@ (3 :> 100) @@ (4 :> 99) @@ (300 :> 41)
TestInput == (0 :> 3) @@ (1 :> 2) @@ (2 :> 0) @@ (3 :> 4) @@ (4 :> 0)
TestOutput == (0 :> 104) @@ (1 :> 50) @@ (2 :> 99)
TestJumpIfTrue == (0 :> 1105) @@ (1 :> -90) @@ (2 :> 100) @@ (100 :> 99)
TestJumpIfFalse == (0 :> 1106) @@ (1 :> 0) @@ (2 :> 100) @@ (100 :> 99)
TestLessThan ==
    (0 :> 1107) @@ (1 :> -12) @@ (2 :> 0) @@ (3 :> 5) @@ (4 :> 1105) @@ (5 :> 0) @@ (6 :> 100)
    @@ (100 :> 99)
TestEquals ==
    (0 :> 1108) @@ (1 :> -12) @@ (2 :> -12) @@ (3 :> 5) @@ (4 :> 1105) @@ (5 :> 0) @@ (6 :> 100)
    @@ (100 :> 99)
TestFeedbackLoop ==
    (0 :> 3) @@ (1 :> 3) @@ (2 :> 1101) @@ (3 :> -99) @@ (4 :> 1) @@ (5 :> 7) @@ (6 :> 104)
    @@ (7 :> -99) @@ (8 :> 1105) @@ (9 :> 1) @@ (10 :> 0)
TestRelativeMode ==
    (0 :> 109) @@ (1 :> 10) @@ (2 :> 1205) @@ (3 :> 5) @@ (4 :> 100) @@ (100 :> 99) @@ (15 :> 1)

TestPrograms ==
    {TestAdd, TestMultiply, TestInvalidOpcode, TestMissingTerminator, TestImmediateMode,
     TestInput, TestOutput, TestJumpIfTrue, TestJumpIfFalse, TestLessThan, TestEquals,
     TestFeedbackLoop, TestRelativeMode}

\* the add and multiply tests with the two operands a and b in place of 41 and 9
ArithVals == {MinI32, -12, 0, 1, 9, 41, 65536, MaxI32}
ArithProgram(opcode, a, b) ==
    (0 :> opcode) @@ (1 :> 10) @@ (2 :> 20) @@ (3 :> 100) @@ (4 :> 99) @@ (10 :> a) @@ (20 :> b)
ArithPrograms == {ArithProgram(opcode, a, b) : opcode \in {1, 2}, a \in ArithVals, b \in ArithVals}

\* one instruction cell behind an adjust-relative-base, with its three parameter cells, a
\* halt, and a data cell wherever a parameter can point: the relative base is 10 when the
\* instruction at 2 runs
MaxModeDigit == 3
ModeDigits == 0 .. MaxModeDigit
Instruction(opcode, m1, m2, m3) == opcode + 100 * m1 + 1000 * m2 + 10000 * m3
Cells ==
    {Instruction(opcode, m1, m2, m3) :
        opcode \in {1, 2, 7, 8}, m1 \in ModeDigits, m2 \in ModeDigits, m3 \in ModeDigits}
    \cup {Instruction(opcode, m1, m2, m3) :
            opcode \in {5, 6}, m1 \in ModeDigits, m2 \in ModeDigits, m3 \in {0, MaxModeDigit}}
    \cup {Instruction(opcode, m1, m2, 0) :
            opcode \in {3, 4, 9}, m1 \in ModeDigits, m2 \in {0, MaxModeDigit}}
    \cup {Instruction(opcode, m1, 0, 0) : opcode \in {0, 10, 45, 98, 99}, m1 \in ModeDigits}
    \cup {-1, -99, -100, -101}
DecodeProgram(cell) ==
    (0 :> 109) @@ (1 :> 10) @@ (2 :> cell) @@ (3 :> 20) @@ (4 :> 21) @@ (5 :> 22) @@ (6 :> 99)
    @@ (20 :> 5) @@ (21 :> 6) @@ (22 :> 40) @@ (30 :> 7) @@ (31 :> 6) @@ (32 :> 50)
DecodePrograms == {DecodeProgram(cell) : cell \in Cells}

\* the less_than and equals tests' comparison on the same operand values, positional
CmpPrograms == {ArithProgram(opcode, a, b) : opcode \in {7, 8}, a \in ArithVals, b \in ArithVals}

\* a conditional jump with immediate operands: every condition against every kind of
\* target (negative, the next instruction, a halt further on, a never-written address)
JumpConds == {0, 1, -90}
JumpTargets == {-5, 3, 100, 7}
JumpProgram(opcode, cond, target) ==
    (0 :> 1100 + opcode) @@ (1 :> cond) @@ (2 :> target) @@ (3 :> 99) @@ (100 :> 99)
JumpPrograms ==
    {JumpProgram(opcode, cond, target) : opcode \in {5, 6}, cond \in JumpConds, target \in JumpTargets}

\* one instruction behind an adjust-relative-base (the relative base is 10 when it runs)
\* whose parameter cells all hold `raw`: a negative value, a value that is negative once
\* the relative base is added, a never-written address, and addresses that are present
RawVals == {-1, -11, 50, 10, 20}
RawCells ==
    {Instruction(opcode, m1, m2, 0) : opcode \in 1 .. 9, m1 \in 0 .. 2, m2 \in 0 .. 1}
RawProgram(cell, raw) ==
    (0 :> 109) @@ (1 :> 10) @@ (2 :> cell) @@ (3 :> raw) @@ (4 :> raw) @@ (5 :> raw) @@ (6 :> 99)
    @@ (10 :> 40) @@ (20 :> 5)
RawPrograms == {RawProgram(cell, raw) : cell \in RawCells, raw \in RawVals}

\* an instruction cell with none of its parameter cells ever written, or the first only
TruncatedCells == {1, 2, 3, 4, 5, 6, 7, 8, 9, 104, 204, 1101, 99}
TruncatedPrograms ==
    {(0 :> cell) : cell \in TruncatedCells} \cup {(0 :> cell) @@ (1 :> 0) : cell \in TruncatedCells}

Programs ==
    TestPrograms \cup ArithPrograms \cup DecodePrograms \cup CmpPrograms \cup JumpPrograms
    \cup RawPrograms \cup TruncatedPrograms

-----------------------------------------------------------------------------
(* Specification                                                             *)

MaxCalls == 2      \* execution API calls per run
MaxPushed == 2     \* push_input calls per run
InputVals == {3, 99}

\* Processor::new on an initial memory image
Init ==
    /\ mem0 \in Programs
    /\ memory = mem0
    /\ pc = 0
    /\ relative_base = 0
    /\ input_buffer = <<>>
    /\ overflow_checks \in BOOLEAN
    /\ call = "idle"
    /\ panicked = FALSE
    /\ ret = NoRet
    /\ last = [state |-> "none", out |-> None, err |-> NoErr,
               cell |-> 0, before |-> Self, after |-> Self]
    /\ errored = FALSE
    /\ terminated = FALSE
    /\ pushed = <<>>
    /\ taken = <<>>
    /\ outputs = <<>>
    /\ ncalls = 0

Budget == call # "idle" \/ ncalls < MaxCalls

Next ==
    \/ Budget /\ ExecuteOnce
    \/ Budget /\ Execute
    \/ Budget /\ ExecuteUntilOutput
    \/ \E value \in InputVals : Len(pushed) < MaxPushed /\ PushInput(value)

Spec == Init /\ [][Next]_vars

\* test::feedback_loop as the caller: a seed is pushed, then execute_until_output and
\* push_input(result) alternate; the two expect() stop the caller on None or Some(Err)
FeedbackRounds == 10
FeedbackSeeds == {0, 1, 7}

InitFeedback == Init /\ mem0 = TestFeedbackLoop

FeedbackSeed ==
    /\ pushed = <<>>
    /\ \E seed \in FeedbackSeeds : PushInput(seed)

FeedbackCall ==
    /\ Len(pushed) = Len(outputs) + 1
    /\ Len(outputs) < FeedbackRounds
    /\ ExecuteUntilOutput

FeedbackPush ==
    /\ outputs # <<>>
    /\ Len(pushed) = Len(outputs)
    /\ outputs[Len(outputs)].kind = "SomeOk"
    /\ PushInput(outputs[Len(outputs)].out.val)

NextFeedback == FeedbackSeed \/ FeedbackCall \/ FeedbackPush

SpecFeedback == InitFeedback /\ [][NextFeedback]_vars

-----------------------------------------------------------------------------
(* Claims                                                                    *)

\* every execution API call so far was an execute_until_output, and all have returned
OnlyExecuteUntilOutput == call = "idle" /\ Len(outputs) = ncalls

\* C1: execute_until_output returns Some(Ok(v)) exactly when the step it just ran was an
\* output instruction yielding v, with the program counter just past it and nothing
\* executed after it; it keeps looping only past steps that yielded nothing; it returns
\* None when the step it just ran hit halt and Some(Err(e)) when that step failed with e.
\* On {0:104, 1:50, 2:99} the first call returns Some(Ok(50)) and the second None.
C1_ExecuteUntilOutput ==
    /\ call = "execute_until_output" => last.state = "Continue" /\ ~last.out.some
    /\ (call = "idle" /\ ret.fn = "execute_until_output") =>
          /\ ret.kind \in {"SomeOk", "None", "SomeErr", "Panic"}
          /\ ret.kind = "SomeOk" =>
                /\ last.state = "Continue" /\ last.out = Some(ret.out.val)
                /\ OpcodeOf(last.cell) = 4
                /\ pc = last.before.pc + 2
                /\ memory = last.after.memory /\ relative_base = last.after.relative_base
          /\ ret.kind = "None" => last.state = "Terminate" /\ pc = last.before.pc
          /\ ret.kind = "SomeErr" => last.state = "Error" /\ ret.err = last.err
          /\ last.state = "Continue" => ret.kind = "SomeOk"
    /\ (mem0 = TestOutput /\ OnlyExecuteUntilOutput) =>
          /\ ncalls >= 1 => outputs[1].kind = "SomeOk" /\ outputs[1].out = Some(50)
          /\ ncalls >= 2 => outputs[2].kind = "None"

C1_Witness ==
    /\ mem0 = TestOutput /\ OnlyExecuteUntilOutput /\ ncalls = 2
    /\ outputs[1].out = Some(50) /\ outputs[2].kind = "None"

\* C2: the input queue is what was pushed and not yet taken, in push order; the k-th
\* successful input instruction stored the k-th value ever pushed; a successful input
\* instruction leaves the program counter 2 further.
C2_InputFifo ==
    /\ Len(taken) <= Len(pushed)
    /\ \A k \in 1 .. Len(taken) : taken[k] = pushed[k]
    /\ input_buffer = SubSeq(pushed, Len(taken) + 1, Len(pushed))
    /\ (last.state = "Continue" /\ OpcodeOf(last.cell) = 3) =>
          /\ last.after.pc = last.before.pc + 2
          /\ last.before.input_buffer # <<>>
          /\ last.after.memory[last.before.memory[last.before.pc + 1]]
                = Head(last.before.input_buffer)
          /\ last.after.input_buffer = Tail(last.before.input_buffer)

C2_Witness ==
    /\ Len(taken) = 2 /\ taken[1] # taken[2]
    /\ last.state = "Continue" /\ OpcodeOf(last.cell) = 3
    /\ last.before.input_buffer = <<taken[2]>>

\* C3: on the feedback program, with a seed pushed first and every result pushed back,
\* the i-th execute_until_output returns Some(Ok(seed + i)): with the seed 0 of the test,
\* the values 1, 2, ..., and never None or an error.
C3_FeedbackLoop ==
    \A i \in 1 .. Len(outputs) :
        /\ outputs[i].kind = "SomeOk"
        /\ outputs[i].out = Some(pushed[1] + i)
        /\ pushed[1] = 0 => outputs[i].out = Some(i)

C3_Witness ==
    /\ Len(outputs) = FeedbackRounds /\ pushed[1] = 0
    /\ outputs[FeedbackRounds].out = Some(FeedbackRounds)
    /\ Len(pushed) = FeedbackRounds + 1

\* the first execution API call was execute(), on the add or multiply program, and it is over
ArithRan(opcode) ==
    /\ mem0 \in ArithPrograms /\ mem0[0] = opcode
    /\ ncalls = 1 /\ call = "idle" /\ ret.fn = "execute"

\* memory is mem0 with `val` at `addr` and nothing else added or changed
OnlyWrote(addr, val) ==
    /\ DOMAIN memory = DOMAIN mem0 \cup {addr}
    /\ memory[addr] = val
    /\ \A a \in DOMAIN mem0 \ {addr} : memory[a] = mem0[a]

\* C4 as stated: for all values a and b, execute() on the add program returns success with
\* a + b (the sum of the integers) at 100 and nothing else touched.
C4_AddAllValues ==
    ArithRan(1) =>
        /\ ret.kind = "Ok"
        /\ AddFits(mem0[10], mem0[20])
        /\ OnlyWrote(100, mem0[10] + mem0[20])

\* C4, amended: for all values a and b whose sum is representable as a Value (i32),
\* execute() on the add program returns success with a + b at 100, every other cell as it
\* was and no other address added. On the test's program, 100 holds 50.
C4_AddRepresentable ==
    /\ (ArithRan(1) /\ AddFits(mem0[10], mem0[20])) =>
          /\ ret.kind = "Ok"
          /\ OnlyWrote(100, mem0[10] + mem0[20])
          /\ pc = 4
    /\ (ArithRan(1) /\ mem0 = TestAdd) => memory = TestAdd @@ (100 :> 50)

C4_Witness ==
    /\ ArithRan(1) /\ mem0[10] = -12 /\ mem0[20] = MaxI32
    /\ ret.kind = "Ok" /\ memory[100] = MaxI32 - 12

\* C5 as stated: for all operand values a and b a cell can hold, the multiply instruction
\* stores the product of the integers a and b at the output address and leaves the program
\* counter 4 further.
C5_MultiplyExact ==
    (mem0 \in ArithPrograms /\ mem0[0] = 2 /\ ncalls >= 1) =>
        /\ ~panicked
        /\ pc = 4
        /\ 100 \in DOMAIN memory
        /\ MulFits(mem0[10], mem0[20])
        /\ memory[100] = mem0[10] * mem0[20]

\* C6 as stated: once an execute_once has returned Error, no later call executes an
\* instruction: none returns Continue, and the program counter, the relative base and the
\* memory never change again.
C6_ErrorIsFinal ==
    [][errored =>
         /\ pc' = pc /\ relative_base' = relative_base /\ memory' = memory
         /\ last'.state # "Continue"]_vars

Operands(opcode) == IF opcode \in {1, 2, 7, 8} THEN 3 ELSE IF opcode \in {5, 6} THEN 2 ELSE 1

\* the decimal digit of a non-negative cell at position j (0 = units)
DecimalDigit(cell, j) ==
    LET RECURSIVE Shift(_, _)
        Shift(n, k) == IF k = 0 THEN n ELSE Shift(n \div 10, k - 1)
    IN  Shift(cell, j) % 10

\* C8: the opcode of a step is the low two decimal digits of the cell at the program
\* counter: 99 gives Terminate, 0 gives Error(FinishedWithoutTerminating), 1..9 reach a
\* handler (Continue, or a handler's error), anything else gives Error(InvalidOpcode);
\* a negative cell never terminates or reaches a handler. Terminate and the two decode
\* errors leave the processor as it was. On {0:45}, execute() returns Err(InvalidOpcode).
C8_OpcodeClassification ==
    /\ (last.state # "none" /\ last.cell >= 0) =>
          LET opcode == last.cell % 100
          IN  /\ opcode = 99 => last.state = "Terminate"
              /\ opcode = 0 => last.state = "Error" /\ last.err = FinishedWithoutTerminating
              /\ opcode \in 1 .. 9 =>
                    /\ last.state \in {"Continue", "Error", "Panic"}
                    /\ last.err \notin {InvalidOpcode, FinishedWithoutTerminating}
              /\ opcode \notin {0, 99} \cup 1 .. 9 =>
                    last.state = "Error" /\ last.err = InvalidOpcode
    /\ (last.state # "none" /\ last.cell < 0) =>
          /\ last.state = "Error"
          /\ last.err = IF last.cell % 100 = 0 THEN FinishedWithoutTerminating ELSE InvalidOpcode
    /\ (last.state = "Terminate" \/ last.err \in {InvalidOpcode, FinishedWithoutTerminating}) =>
          last.after = last.before
    /\ (mem0 = TestInvalidOpcode /\ call = "idle" /\ ret.fn = "execute") =>
          ret.kind = "Err" /\ ret.err = InvalidOpcode

C8_Witness ==
    /\ mem0 = TestInvalidOpcode /\ call = "idle" /\ ret.fn = "execute"
    /\ ret.err = InvalidOpcode /\ last.cell = 45 /\ pc = 0

\* C9 as stated: a step on an opcode of 1..9 whose cell has a mode digit outside 0..2 at
\* the position of any of its operands, the output operand included, returns
\* Error(IllegalMode) and leaves the processor as it was.
C9_IllegalModeEveryOperand ==
    (/\ last.state # "none" /\ last.cell >= 0 /\ (last.cell % 100) \in 1 .. 9
     /\ \E k \in 0 .. Operands(last.cell % 100) - 1 : DecimalDigit(last.cell, 2 + k) > 2) =>
        /\ last.state = "Error" /\ last.err = IllegalMode
        /\ last.after = last.before

\* C10 as stated: a successful step of a writing opcode (1, 2, 3, 7, 8) writes the one cell
\* its output operand's mode digit selects: raw for 0, the parameter cell itself for 1,
\* raw + relative base for 2, where raw is the value of the parameter cell.
C10_OutputModeAddressing ==
    (/\ last.state = "Continue" /\ last.cell >= 0 /\ (last.cell % 100) \in {1, 2, 3, 7, 8}
     /\ DecimalDigit(last.cell, 1 + Operands(last.cell % 100)) <= 2) =>
        LET digit == DecimalDigit(last.cell, 1 + Operands(last.cell % 100))
            slot == last.before.pc + Operands(last.cell % 100)
            raw == last.before.memory[slot]
            dest == IF digit = 0 THEN raw
                    ELSE IF digit = 1 THEN slot
                    ELSE raw + last.before.relative_base
        IN  /\ dest \in DOMAIN last.after.memory
            /\ \A a \in DOMAIN last.after.memory \ {dest} :
                  a \in DOMAIN last.before.memory
                  /\ last.after.memory[a] = last.before.memory[a]

\* the step `last` ran to completion on the instruction `opcode` (its cell is not negative)
Ran(opcode) == last.state = "Continue" /\ last.cell >= 0 /\ last.cell % 100 = opcode

\* the mode digit of operand i of the step `last`, and its parameter cell
ModeOfOperand(i) == DecimalDigit(last.cell, 2 + i)
ParamCell(i) == last.before.memory[last.before.pc + 1 + i]

\* the value the addressing modes give read operand i of the step `last`
OperandValue(i) ==
    CASE ModeOfOperand(i) = 0 -> last.before.memory[ParamCell(i)]
      [] ModeOfOperand(i) = 1 -> ParamCell(i)
      [] ModeOfOperand(i) = 2 -> last.before.memory[last.before.relative_base + ParamCell(i)]

\* the first execution API call was execute(), and it is over
ExecuteRan == ncalls = 1 /\ call = "idle" /\ ret.fn = "execute"

\* C11: a read operand in mode 2 yields the cell at relative base + parameter (seen in
\* what output yields, what add stores and what opcode 9 adds); the relative base starts
\* at 0, changes only by a successful opcode 9, which adds its operand's value and moves
\* the program counter by 2, so that it is the sum of the operands so far (10 + 5, 10 + 20
\* and 10 + 7 after the two adjustments of the decode programs). On the relative_mode
\* test's program execute() returns Ok with the program counter at 100.
C11_RelativeAddressing ==
    /\ (Ran(4) /\ ModeOfOperand(0) = 2) =>
          last.out = Some(last.before.memory[last.before.relative_base + ParamCell(0)])
    /\ (Ran(1) /\ ModeOfOperand(0) <= 2 /\ ModeOfOperand(1) <= 2
            /\ 2 \in {ModeOfOperand(0), ModeOfOperand(1)}) =>
          last.after.memory[ParamCell(2)] = OperandValue(0) + OperandValue(1)
    /\ Ran(9) =>
          /\ last.after.relative_base = last.before.relative_base + OperandValue(0)
          /\ last.after.pc = last.before.pc + 2
          /\ last.after.memory = last.before.memory
    /\ ~Ran(9) => last.after.relative_base = last.before.relative_base
    /\ relative_base = last.after.relative_base
    /\ last.state = "none" => relative_base = 0
    /\ \A m \in 0 .. 2 :
          (mem0 = DecodeProgram(Instruction(9, m, 0, 0)) /\ pc = 4) =>
              relative_base = 10 + (IF m = 0 THEN 5 ELSE IF m = 1 THEN 20 ELSE 7)
    /\ (mem0 = TestRelativeMode /\ ExecuteRan) =>
          /\ ret.kind = "Ok" /\ pc = 100 /\ relative_base = 10
          /\ last.before.pc = 100 /\ memory = mem0

C11_Witness ==
    /\ mem0 = TestRelativeMode /\ ExecuteRan
    /\ ret.kind = "Ok" /\ pc = 100 /\ relative_base = 10 /\ last.state = "Terminate"

\* C12: the mode of read operand i is the decimal digit at position 2 + i of the cell; an
\* operand of mode 1 is the parameter cell at pc + 1 + i itself and one of mode 0 is the
\* cell that parameter addresses: seen in what output yields, what add and less-than
\* store and where the jumps go, for every combination of the two modes. On the
\* immediate_mode test's program execute() leaves 50 at 100 and the rest as it was.
C12_ModeDecoding ==
    /\ (Ran(4) /\ ModeOfOperand(0) <= 1) => last.out = Some(OperandValue(0))
    /\ (Ran(1) /\ ModeOfOperand(0) <= 1 /\ ModeOfOperand(1) <= 1
            /\ AddFits(OperandValue(0), OperandValue(1))) =>
          last.after.memory[ParamCell(2)] = OperandValue(0) + OperandValue(1)
    /\ (Ran(7) /\ ModeOfOperand(0) <= 1 /\ ModeOfOperand(1) <= 1) =>
          last.after.memory[ParamCell(2)] = (IF OperandValue(0) < OperandValue(1) THEN 1 ELSE 0)
    /\ (Ran(5) /\ ModeOfOperand(0) <= 1 /\ ModeOfOperand(1) <= 1) =>
          last.after.pc = (IF OperandValue(0) # 0 THEN OperandValue(1) ELSE last.before.pc + 3)
    /\ (Ran(6) /\ ModeOfOperand(0) <= 1 /\ ModeOfOperand(1) <= 1) =>
          last.after.pc = (IF OperandValue(0) = 0 THEN OperandValue(1) ELSE last.before.pc + 3)
    /\ (mem0 = TestImmediateMode /\ ExecuteRan) =>
          /\ ret.kind = "Ok"
          /\ OnlyWrote(100, 50)

C12_Witness ==
    /\ mem0 = TestImmediateMode /\ ExecuteRan
    /\ ret.kind = "Ok" /\ memory[100] = 50 /\ memory[300] = 41 /\ pc = 4

\* read operand i of the step `last` can be resolved: its parameter cell is present and,
\* unless it is immediate, so is the cell it addresses
Readable(i) ==
    /\ last.before.pc + 1 + i \in DOMAIN last.before.memory
    /\ \/ ModeOfOperand(i) = 1
       \/ ModeOfOperand(i) = 0 /\ ParamCell(i) \in DOMAIN last.before.memory
       \/ /\ ModeOfOperand(i) = 2
          /\ last.before.relative_base + ParamCell(i) \in DOMAIN last.before.memory

\* the step `last` was the jump `opcode`, with both its operands resolvable
JumpStep(opcode) ==
    /\ last.state # "none" /\ last.cell >= 0 /\ last.cell % 100 = opcode
    /\ Readable(0) /\ Readable(1)

\* the step `last` returned Continue with the program counter at `target` and the memory,
\* the relative base and the input queue as they were
JumpedTo(target) ==
    /\ last.state = "Continue" /\ last.out = None
    /\ last.after = [last.before EXCEPT !.pc = target]

\* C13 as stated: jump-if-true goes to its target when the condition is not 0 (the target
\* being an address), jump-if-false when it is 0; otherwise the step returns Continue with
\* the program counter 3 further, whatever the value of the target operand; memory,
\* relative base and input queue are untouched.
C13_ConditionalJumps ==
    /\ JumpStep(5) =>
          IF OperandValue(0) # 0
          THEN OperandValue(1) >= 0 => JumpedTo(OperandValue(1))
          ELSE JumpedTo(last.before.pc + 3)
    /\ JumpStep(6) =>
          IF OperandValue(0) = 0
          THEN OperandValue(1) >= 0 => JumpedTo(OperandValue(1))
          ELSE JumpedTo(last.before.pc + 3)

\* the step `last` was an input instruction run on an empty input queue
InputOnEmpty ==
    /\ last.state # "none" /\ last.cell >= 0 /\ last.cell % 100 = 3
    /\ last.before.input_buffer = <<>>

\* the step `last` failed with InputReadError and left the processor as it was, the same
\* instruction at the program counter
InputReadFailed ==
    /\ last.state = "Error" /\ last.err = InputReadError
    /\ last.after.pc = last.before.pc
    /\ last.after.memory = last.before.memory
    /\ last.after.relative_base = last.before.relative_base
    /\ Fetch(last.after) = last.cell

\* C14 as stated: every input instruction run on an empty input queue returns
\* Error(InputReadError), with program counter, memory and relative base as before.
C14_InputOnEmptyQueue == InputOnEmpty => InputReadFailed

\* C14, amended: an input instruction whose parameter cell at pc + 1 is present and holds a
\* non-negative value, run on an empty input queue, returns Error(InputReadError), with
\* program counter, memory and relative base as before the step; whatever its parameter
\* cell, the step returns an error and leaves them as before.
C14_InputOnEmptyQueueValidAddress ==
    /\ (/\ InputOnEmpty
        /\ last.before.pc + 1 \in DOMAIN last.before.memory
        /\ ParamCell(0) >= 0) => InputReadFailed
    /\ InputOnEmpty =>
          /\ last.state = "Error"
          /\ last.after.pc = last.before.pc
          /\ last.after.memory = last.before.memory
          /\ last.after.relative_base = last.before.relative_base

C14_Witness ==
    /\ mem0 = TestInput /\ InputOnEmpty /\ InputReadFailed
    /\ pc = 0 /\ pushed = <<>> /\ ret.fn = "execute_once"

\* the step `last` ran a handler, on a cell whose mode digits are all legal
HandlerStep(opcodes) ==
    /\ last.state # "none" /\ last.cell >= 0 /\ (last.cell % 100) \in opcodes
    /\ \A k \in 0 .. Operands(last.cell % 100) - 1 : ModeOfOperand(k) <= 2

\* the step `last` failed with IllegalPositionalArgument(OutOfRange(v)), nothing changed
RejectedAddress(v) ==
    /\ last.state = "Error" /\ last.err = IllegalPositionalArgument(v)
    /\ last.after = last.before

\* the address a positional or relative read operand i of the step `last` reads
OperandAddress(i) ==
    IF ModeOfOperand(i) = 2 THEN last.before.relative_base + ParamCell(i) ELSE ParamCell(i)

\* read operand i of the step `last` is reached (the ones before it resolve, its
\* parameter cell is present) and is positional or relative
Indirected(i) ==
    /\ \A k \in 0 .. i - 1 : Readable(k)
    /\ last.before.pc + 1 + i \in DOMAIN last.before.memory
    /\ ModeOfOperand(i) \in {0, 2}

\* ... and the address it is to read is negative
NegativeAddressOperand(i) == Indirected(i) /\ OperandAddress(i) < 0

\* C15: a step that would use a negative value v as an address fails with
\* IllegalPositionalArgument(OutOfRange(v)) and changes nothing, whether v is a positional
\* pointer, a relative offset plus the relative base, an output address, or the target of a
\* jump that is taken; so the program counter and the keys of memory are never negative.
C15_NegativeNeverAddress ==
    /\ pc >= 0
    /\ \A a \in DOMAIN memory : a >= 0
    /\ last.err.kind = "IllegalPositionalArgument" => last.err.arg < 0 /\ RejectedAddress(last.err.arg)
    /\ (HandlerStep({1, 2, 4, 5, 6, 7, 8, 9}) /\ NegativeAddressOperand(0)) =>
          RejectedAddress(OperandAddress(0))
    /\ (HandlerStep({1, 2, 5, 6, 7, 8}) /\ NegativeAddressOperand(1)) =>
          RejectedAddress(OperandAddress(1))
    /\ (HandlerStep({1, 2, 7, 8}) /\ Readable(0) /\ Readable(1)
            /\ last.before.pc + 3 \in DOMAIN last.before.memory /\ ParamCell(2) < 0) =>
          RejectedAddress(ParamCell(2))
    /\ (last.state # "none" /\ last.cell >= 0 /\ last.cell % 100 = 3
            /\ last.before.pc + 1 \in DOMAIN last.before.memory /\ ParamCell(0) < 0) =>
          RejectedAddress(ParamCell(0))
    /\ (JumpStep(5) /\ OperandValue(0) # 0 /\ OperandValue(1) < 0) =>
          RejectedAddress(OperandValue(1))
    /\ (JumpStep(6) /\ OperandValue(0) = 0 /\ OperandValue(1) < 0) =>
          RejectedAddress(OperandValue(1))

C15_Witness ==
    /\ mem0 = RawProgram(Instruction(4, 2, 0, 0), -11)
    /\ HandlerStep({4}) /\ NegativeAddressOperand(0) /\ RejectedAddress(-1)
    /\ pc = 2 /\ relative_base = 10

\* the step `last` stored `val` at `addr` and changed no other cell, moved the program
\* counter by `width` and left the relative base and the input queue alone
StoredOnly(addr, val, width) ==
    /\ DOMAIN last.after.memory = DOMAIN last.before.memory \cup {addr}
    /\ last.after.memory[addr] = val
    /\ \A a \in DOMAIN last.before.memory \ {addr} : last.after.memory[a] = last.before.memory[a]
    /\ last.after.pc = last.before.pc + width
    /\ last.after.relative_base = last.before.relative_base
    /\ last.after.input_buffer = last.before.input_buffer

\* C16: a less-than step stores 1 at its output address if a < b and 0 otherwise, an equals
\* step 1 if a = b and 0 otherwise, a and b being the values of its two read operands
\* (negative ones and the extremes of the value range included); the stored value is 0 or
\* 1, no other cell changes and the program counter moves by 4. On the tests' programs
\* (-12 < 0, -12 = -12) execute() stores 1 at 5, which makes the following jump go to the
\* halt at 100.
C16_Comparisons ==
    /\ Ran(7) =>
          \E addr \in DOMAIN last.after.memory :
              /\ StoredOnly(addr, IF OperandValue(0) < OperandValue(1) THEN 1 ELSE 0, 4)
              /\ last.after.memory[addr] \in {0, 1}
              /\ ModeOfOperand(2) = 0 => addr = ParamCell(2)
    /\ Ran(8) =>
          \E addr \in DOMAIN last.after.memory :
              /\ StoredOnly(addr, IF OperandValue(0) = OperandValue(1) THEN 1 ELSE 0, 4)
              /\ last.after.memory[addr] \in {0, 1}
              /\ ModeOfOperand(2) = 0 => addr = ParamCell(2)
    /\ \A opcode \in {7, 8} :
          (mem0 \in CmpPrograms /\ mem0[0] = opcode /\ ExecuteRan) =>
              /\ ret.kind = "Ok" /\ pc = 4
              /\ OnlyWrote(100, IF opcode = 7
                                THEN (IF mem0[10] < mem0[20] THEN 1 ELSE 0)
                                ELSE (IF mem0[10] = mem0[20] THEN 1 ELSE 0))
    /\ (mem0 \in {TestLessThan, TestEquals} /\ ExecuteRan) =>
          ret.kind = "Ok" /\ pc = 100 /\ memory = [mem0 EXCEPT ![5] = 1]

C16_Witness ==
    /\ mem0 = ArithProgram(7, MinI32, -12) /\ ExecuteRan
    /\ ret.kind = "Ok" /\ memory[100] = 1 /\ pc = 4

\* the step `last` failed with EmptyRead(addr)
FailedEmptyRead(addr) == last.state = "Error" /\ last.err = EmptyRead(addr)

\* the step `last` reached read operand i, whose parameter cell was never written
AbsentParameter(i) ==
    /\ \A k \in 0 .. i - 1 : Readable(k)
    /\ last.before.pc + 1 + i \notin DOMAIN last.before.memory

\* the step `last` reached read operand i, positional or relative, and the address it is
\* to read was never written
AbsentOperand(i) ==
    /\ Indirected(i)
    /\ OperandAddress(i) >= 0 /\ OperandAddress(i) \notin DOMAIN last.before.memory

\* the second conjunct of C17 on: a never-written parameter cell or operand cell makes the
\* step fail with EmptyRead of that address
C17_OperandReads ==
    /\ \A i \in 0 .. 1 :
          (HandlerStep({1, 2, 5, 6, 7, 8}) /\ AbsentParameter(i)) =>
              FailedEmptyRead(last.before.pc + 1 + i)
    /\ (HandlerStep({4, 9}) /\ AbsentParameter(0)) => FailedEmptyRead(last.before.pc + 1)
    /\ (last.state # "none" /\ last.cell >= 0 /\ last.cell % 100 = 3
            /\ last.before.pc + 1 \notin DOMAIN last.before.memory) =>
          FailedEmptyRead(last.before.pc + 1)
    /\ (HandlerStep({1, 2, 4, 5, 6, 7, 8, 9}) /\ AbsentOperand(0)) =>
          FailedEmptyRead(OperandAddress(0))
    /\ (HandlerStep({1, 2, 5, 6, 7, 8}) /\ AbsentOperand(1)) =>
          FailedEmptyRead(OperandAddress(1))

\* C17 as stated: reading a never-written address fails with EmptyRead(addr) on every
\* path alike: the instruction fetch at the program counter, the read of a parameter cell
\* and the indirected read of a positional or relative operand.
C17_UniformNeverWritten ==
    /\ (last.state # "none" /\ last.before.pc \notin DOMAIN last.before.memory) =>
          FailedEmptyRead(last.before.pc)
    /\ C17_OperandReads

\* the addresses at which two memories differ (present in one only, or holding another value)
Changed(m1, m2) ==
    {a \in DOMAIN m1 \cup DOMAIN m2 :
        a \notin DOMAIN m1 \/ a \notin DOMAIN m2 \/ m1[a] # m2[a]}

\* C18: over any sequence of steps and push_input calls the set of present addresses never
\* shrinks (the initial ones are all still present); one execute_once changes at most one
\* cell and leaves every other cell with the value it had, and only a step of opcode 1, 2,
\* 3, 7 or 8 that returns Continue changes one: then the cell it wrote holds the value
\* written; between steps memory does not change.
C18_MemoryInvariant ==
    /\ DOMAIN mem0 \subseteq DOMAIN memory
    /\ DOMAIN last.before.memory \subseteq DOMAIN last.after.memory
    /\ memory = last.after.memory
    /\ Cardinality(Changed(last.before.memory, last.after.memory)) <= 1
    /\ (last.state = "Continue" /\ last.cell >= 0 /\ (last.cell % 100) \in {1, 2, 3, 7, 8}) =>
          /\ ParamCell(Operands(last.cell % 100) - 1) \in DOMAIN last.after.memory
          /\ Changed(last.before.memory, last.after.memory)
                \subseteq {ParamCell(Operands(last.cell % 100) - 1)}
    /\ ~(last.state = "Continue" /\ last.cell >= 0 /\ (last.cell % 100) \in {1, 2, 3, 7, 8}) =>
          last.after.memory = last.before.memory
    /\ Ran(3) => last.after.memory[ParamCell(0)] = Head(last.before.input_buffer)
    /\ (Ran(1) /\ AddFits(OperandValue(0), OperandValue(1))) =>
          last.after.memory[ParamCell(2)] = OperandValue(0) + OperandValue(1)

C18_Witness ==
    /\ mem0 = DecodeProgram(Instruction(8, 0, 0, 0)) /\ Ran(8)
    /\ Changed(last.before.memory, last.after.memory) = {22}
    /\ memory[22] = 0 /\ mem0[22] = 40 /\ DOMAIN memory = DOMAIN mem0

\* C19: a step that returns Error, whatever the error, leaves the program counter, the
\* relative base, the memory and the input queue exactly as they were before it (a failing
\* input instruction takes nothing from the queue), and what earlier steps did stays: after
\* the failing step the processor is still as the last successful one left it, as on the
\* missing_terminator test's program, where 103 stays at 100 after the failure at 4.
C19_FailingStepAtomic ==
    /\ last.state = "Error" =>
          /\ last.after.pc = last.before.pc
          /\ last.after.relative_base = last.before.relative_base
          /\ last.after.memory = last.before.memory
          /\ last.after.input_buffer = last.before.input_buffer
          /\ pc = last.before.pc /\ relative_base = last.before.relative_base
          /\ memory = last.before.memory
          /\ Len(taken) + Len(input_buffer) = Len(pushed)
    /\ (last.state = "Error" /\ last.cell >= 0 /\ last.cell % 100 = 3) =>
          \E n \in 0 .. MaxPushed :
              /\ Len(input_buffer) = Len(last.before.input_buffer) + n
              /\ SubSeq(input_buffer, 1, Len(last.before.input_buffer)) = last.before.input_buffer
    /\ (mem0 = TestMissingTerminator /\ ExecuteRan) =>
          /\ ret.kind = "Err" /\ last.state = "Error"
          /\ pc = 4 /\ memory = mem0 @@ (100 :> 103) /\ memory[100] = 103

C19_Witness ==
    /\ mem0 = RawProgram(3, -1)
    /\ last.state = "Error" /\ last.err = IllegalPositionalArgument(-1) /\ last.cell = 3
    /\ last.before.input_buffer = <<3>> /\ input_buffer = <<3>>
    /\ pc = 2 /\ relative_base = 10 /\ memory = mem0

\* C20: once an execute_once has returned Terminate, the program counter is, and stays, at
\* the halt cell; every later step returns Terminate, so that a later execute_once returns
\* Terminate, execute() Ok(()) and execute_until_output() None, whatever is pushed in
\* between; and the memory, the program counter and the relative base never change again.
C20_TerminationStable ==
    /\ [](terminated =>
            /\ call = "idle"
            /\ last.state = "Terminate"
            /\ pc = last.before.pc /\ Fetches(Self, 99)
            /\ ret.fn = "execute_once" => ret.kind = "Terminate"
            /\ ret.fn = "execute" => ret.kind = "Ok"
            /\ ret.fn = "execute_until_output" => ret.kind = "None" /\ ret.out = None)
    /\ [][terminated =>
            /\ pc' = pc /\ memory' = memory /\ relative_base' = relative_base
            /\ terminated']_vars

C20_Witness ==
    /\ mem0 = (0 :> 99) /\ terminated
    /\ ncalls = 2 /\ call = "idle" /\ pushed # <<>>
    /\ ret.fn = "execute_until_output" /\ ret.kind = "None"
    /\ pc = 0 /\ memory = mem0

====
